---- MODULE Spec2Model ----
(***************************************************************************)
(* Model of mapa_srodowiska/main.py: the OpenEXR decoder                    *)
(* load_hdr_environment_map and the program main that presents its result.  *)
(* Buffers are modelled byte by byte (Python bytes / bytearray), with       *)
(* Python's 0-based half-open slices.                                       *)
(***************************************************************************)
EXTENDS Integers, Sequences, FiniteSets, TLC

VARIABLES
    files,              \* the file system: the EXR files a path can name
    filepath,           \* argument of the running call (index into files)
    mpc,                \* position in main ("lib": load is called directly)
    pc,                 \* position in load_hdr_environment_map
    attempted,          \* log of the precondition checks load has executed
    err,                \* exception load raised: [kind, wraps]
    containerOpen,      \* exr_file is an open container
    width, height,      \* locals of load
    channel_data,       \* local of load: channel name -> bytes
    hdr_image,          \* local of load: bytearray
    flipped_hdr_image,  \* local of load: bytearray
    row_size,           \* local of load
    i, j, k,            \* loop variables of load
    writes,             \* per byte of hdr_image: how often the loop wrote it
    result,             \* value load returned: [width, height, pixels]
    mvars,              \* main's width, height, hdr_map
    printed,            \* what main printed
    presenter,          \* log of the GLUT calls main made
    displayed,          \* arguments of each display_hdr_image call
    caught,             \* the exception main's except clause received
    outcomes,           \* finished calls of load: [path, kind, result]
    calls               \* number of calls of load made so far

vars == <<files, filepath, mpc, pc, attempted, err, containerOpen, width,
          height, channel_data, hdr_image, flipped_hdr_image, row_size,
          i, j, k, writes, result, mvars, printed, presenter, displayed,
          caught, outcomes, calls>>

loadLocals == <<width, height, channel_data, hdr_image, flipped_hdr_image,
                row_size, i, j, k, writes>>

mainVars == <<mvars, printed, presenter, displayed, caught>>

history == <<outcomes, calls>>

-----------------------------------------------------------------------------
(* Bounds *)

\* data-window coordinates range over 0..MaxCoord
MaxCoord == 2

\* the channel contents of a file are drawn from MaxSeed + 1 patterns
MaxSeed == 1

\* display callbacks the GLUT main loop delivers
MaxFrames == 2

\* calls of load made when it is used directly
MaxCalls == 3

-----------------------------------------------------------------------------
(* Program constants *)

\* bytes per 32-bit float
FloatSize == 4

\* channels per pixel
NumChannels == 3

channels == <<"R", "G", "B">>

-----------------------------------------------------------------------------
(* Python slices on bytes *)

Min(a, b) == IF a <= b THEN a ELSE b

Max(a, b) == IF a >= b THEN a ELSE b

\* s[lo:hi] for 0 <= lo, 0 <= hi: bounds are clamped to len(s)
Slice(s, lo, hi) ==
    LET l == Min(lo, Len(s))
        h == Min(hi, Len(s))
    IN  IF l >= h THEN <<>> ELSE SubSeq(s, l + 1, h)

\* s[lo:hi] = src on a bytearray: the slice is replaced by src, whatever
\* its length
SliceAssign(s, lo, hi, src) ==
    LET l == Min(lo, Len(s))
        h == Max(l, Min(hi, Len(s)))
    IN  SubSeq(s, 1, l) \o src \o SubSeq(s, h + 1, Len(s))

\* bytearray(n) for n >= 0: n zero bytes
ZeroBytes(n) == [x \in 1..n |-> 0]

-----------------------------------------------------------------------------
(* The files: what os and OpenEXR report about a path *)

ChannelNames == {channels[n] : n \in 1..NumChannels}

Windows == [minx : 0..MaxCoord, maxx : 0..MaxCoord,
            miny : 0..MaxCoord, maxy : 0..MaxCoord]

NoWindow == [minx |-> 0, maxx |-> 0, miny |-> 0, maxy |-> 0]

\* files whose container opens: any data window, any subset of the
\* channels deliverable as FLOAT, any content pattern
OpenableFiles ==
    [exists : {TRUE}, readable : {TRUE}, openable : {TRUE}, dw : Windows,
     present : SUBSET ChannelNames, seed : 0..MaxSeed]

\* files load never gets a header of
ClosedFiles ==
    {f \in [exists : BOOLEAN, readable : BOOLEAN, openable : BOOLEAN,
            dw : {NoWindow}, present : {ChannelNames}, seed : {0}] :
        ~(f.exists /\ f.readable /\ f.openable)}

Files == OpenableFiles \cup ClosedFiles

\* width = dw.max.x - dw.min.x + 1
WindowWidth(dw) == dw.maxx - dw.minx + 1

\* height = dw.max.y - dw.min.y + 1
WindowHeight(dw) == dw.maxy - dw.miny + 1

ChannelIndex(c) == CHOOSE n \in 0..(NumChannels - 1) : channels[n + 1] = c

\* exr_file.channel(c, FLOAT): one float per pixel of the data window,
\* row-major, as raw bytes.  Every byte of a file is non-zero and differs
\* from every other byte of the file.
PlaneBytes(f, c) ==
    LET n == WindowWidth(f.dw) * WindowHeight(f.dw) * FloatSize
    IN  IF WindowWidth(f.dw) < 1 \/ WindowHeight(f.dw) < 1 THEN <<>>
        ELSE [x \in 1..n |->
                1 + ((f.seed * 7 + ChannelIndex(c) * n + x - 1) % 255)]

-----------------------------------------------------------------------------
(* load_hdr_environment_map *)

File == files[filepath]

NoError == [kind |-> "", wraps |-> ""]

NoResult == [width |-> 0, height |-> 0, pixels |-> <<>>]

NoChannelData == [c \in ChannelNames |-> <<>>]

\* raise: the frame's locals stay as they are, referenced by the traceback
Raise(kind, wraps) ==
    /\ pc' = "raised"
    /\ err' = [kind |-> kind, wraps |-> wraps]

\* fault: a module-level cache of the last successful load, not keyed by
\* the path, answers before any check
CheckExistsCached ==
    /\ pc = "exists"
    /\ LET hits == {n \in 1..Len(outcomes) : outcomes[n].kind = "return"}
       IN  IF hits # {}
             THEN /\ result' = outcomes[CHOOSE n \in hits :
                                            \A m \in hits : m <= n].result
                  /\ pc' = "done"
                  /\ UNCHANGED <<attempted, err>>
             ELSE /\ attempted' = Append(attempted, "exists")
                  /\ result' = result
                  /\ IF File.exists
                       THEN pc' = "access" /\ err' = err
                       ELSE Raise("FileNotFoundError", "")
    /\ UNCHANGED <<files, filepath, mpc, containerOpen, loadLocals,
                   mainVars, history>>

\* if not os.path.exists(filepath): raise FileNotFoundError
CheckExists ==
    /\ pc = "exists"
    /\ attempted' = Append(attempted, "exists")
    /\ \/ /\ ~File.exists
          /\ Raise("FileNotFoundError", "")
       \/ /\ File.exists
          /\ pc' = "access"
          /\ err' = err
    /\ UNCHANGED <<files, filepath, mpc, containerOpen, loadLocals, result,
                   mainVars, history>>

\* fault: the permission check is left out
CheckAccessOmitted ==
    /\ pc = "access"
    /\ pc' = "open"
    /\ UNCHANGED <<files, filepath, mpc, attempted, err, containerOpen,
                   loadLocals, result, mainVars, history>>

\* if not os.access(filepath, os.R_OK): raise PermissionError
CheckAccess ==
    /\ pc = "access"
    /\ attempted' = Append(attempted, "access")
    /\ \/ /\ ~File.readable
          /\ Raise("PermissionError", "")
       \/ /\ File.readable
          /\ pc' = "open"
          /\ err' = err
    /\ UNCHANGED <<files, filepath, mpc, containerOpen, loadLocals, result,
                   mainVars, history>>

\* try: exr_file = OpenEXR.InputFile(filepath)
\* except Exception as e: raise OSError(... str(e))
OpenContainer ==
    /\ pc = "open"
    /\ attempted' = Append(attempted, "open")
    /\ \/ /\ ~File.openable
          /\ Raise("OSError", "InputFile")
          /\ containerOpen' = containerOpen
       \/ /\ File.openable
          /\ pc' = "header"
          /\ err' = err
          /\ containerOpen' = TRUE
    /\ UNCHANGED <<files, filepath, mpc, loadLocals, result, mainVars,
                   history>>

\* header = exr_file.header(); dw = header['dataWindow']; width, height
ReadHeader ==
    /\ pc = "header"
    /\ width' = WindowWidth(File.dw)
    /\ height' = WindowHeight(File.dw)
    /\ i' = 0
    /\ pc' = "channels"
    /\ UNCHANGED <<files, filepath, mpc, attempted, err, containerOpen,
                   channel_data, hdr_image, flipped_hdr_image, row_size,
                   j, k, writes, result, mainVars, history>>

\* channel_data = {channel: exr_file.channel(channel, FLOAT) for channel in
\* channels}: one library call per channel, in the order R, G, B.  A call
\* for a channel the library cannot deliver raises the library's exception,
\* which load neither catches nor wraps.
ReadChannel ==
    /\ pc = "channels"
    /\ LET c == channels[i + 1] IN
       \/ /\ c \notin File.present
          /\ Raise("LibraryError", "")
          /\ UNCHANGED <<channel_data, i>>
       \/ /\ c \in File.present
          /\ channel_data' = [channel_data EXCEPT ![c] = PlaneBytes(File, c)]
          /\ i' = IF i + 1 < NumChannels THEN i + 1 ELSE 0
          /\ pc' = IF i + 1 < NumChannels THEN "channels" ELSE "alloc"
          /\ err' = err
    /\ UNCHANGED <<files, filepath, mpc, attempted, containerOpen, width,
                   height, hdr_image, flipped_hdr_image, row_size, j, k,
                   writes, result, mainVars, history>>

\* width * height * 3 * 4
BufferSize(w, h) == w * h * 3 * 4

\* hdr_image = bytearray(width * height * 3 * 4): a negative count raises
\* ValueError.  The loops that follow run only when range(height) and
\* range(width) are both non-empty.
AllocInterleaved ==
    /\ pc = "alloc"
    /\ \/ /\ BufferSize(width, height) < 0
          /\ Raise("ValueError", "")
          /\ UNCHANGED <<hdr_image, writes, i, j, k>>
       \/ /\ BufferSize(width, height) >= 0
          /\ hdr_image' = ZeroBytes(BufferSize(width, height))
          /\ writes' = ZeroBytes(BufferSize(width, height))
          /\ i' = 0 /\ j' = 0 /\ k' = 0
          /\ pc' = IF height >= 1 /\ width >= 1 THEN "interleave"
                   ELSE "alloc_flipped"
          /\ err' = err
    /\ UNCHANGED <<files, filepath, mpc, attempted, containerOpen, width,
                   height, channel_data, flipped_hdr_image, row_size,
                   result, mainVars, history>>

\* fault: the channel offset is counted in bytes, not floats
DstIndexByteOffset(jj, kk, ii, w) == (jj * w + kk) * 3 * 4 + ii

\* index = (j * width + k) * 3 * 4 + i * 4
DstIndex(jj, kk, ii, w) == (jj * w + kk) * 3 * 4 + ii * 4

\* (j * width + k) * 4
SrcLo(jj, kk, w) == (jj * w + kk) * 4

\* fault: the source slice is one byte short
SrcHiShort(jj, kk, w) == (jj * w + kk) * 4 + 3

\* (j * width + k + 1) * 4
SrcHi(jj, kk, w) == (jj * w + kk + 1) * 4

\* the bytes a slice assignment at lo of n bytes touches are counted
CountWrites(ws, lo, n) ==
    [x \in 1..Len(ws) |-> IF lo < x /\ x <= lo + n THEN ws[x] + 1 ELSE ws[x]]

\* one iteration of the innermost loop body, then the loop headers
InterleaveStep ==
    /\ pc = "interleave"
    /\ LET channel_buffer == channel_data[channels[i + 1]]
           index == DstIndex(j, k, i, width)
           src == Slice(channel_buffer, SrcLo(j, k, width),
                        SrcHi(j, k, width))
       IN  /\ hdr_image' = SliceAssign(hdr_image, index, index + 4, src)
           /\ writes' = CountWrites(writes, index, Len(src))
    /\ IF k + 1 < width
         THEN /\ k' = k + 1
              /\ UNCHANGED <<i, j, pc>>
         ELSE IF j + 1 < height
           THEN /\ k' = 0 /\ j' = j + 1
                /\ UNCHANGED <<i, pc>>
           ELSE IF i + 1 < NumChannels
             THEN /\ k' = 0 /\ j' = 0 /\ i' = i + 1
                  /\ pc' = pc
             ELSE /\ pc' = "alloc_flipped"
                  /\ UNCHANGED <<i, j, k>>
    /\ UNCHANGED <<files, filepath, mpc, attempted, err, containerOpen,
                   width, height, channel_data, flipped_hdr_image, row_size,
                   result, mainVars, history>>

\* fault: the row size is counted in floats, not bytes
RowSizeInFloats(w) == w * 3

\* row_size = width * 3 * 4
RowSize(w) == w * 3 * 4

\* flipped_hdr_image = bytearray(width * height * 3 * 4); row_size
AllocFlipped ==
    /\ pc = "alloc_flipped"
    /\ flipped_hdr_image' = ZeroBytes(BufferSize(width, height))
    /\ row_size' = RowSize(width)
    /\ j' = 0
    /\ pc' = IF height >= 1 THEN "flip" ELSE "return"
    /\ UNCHANGED <<files, filepath, mpc, attempted, err, containerOpen,
                   width, height, channel_data, hdr_image, i, k, writes,
                   result, mainVars, history>>

\* src_index = j * row_size
FlipSrcIndex(jj, rs) == jj * rs

\* fault: rows are copied to where they came from
FlipDstIndexSameRow(jj, h, rs) == jj * rs

\* dst_index = (height - 1 - j) * row_size
FlipDstIndex(jj, h, rs) == (h - 1 - jj) * rs

\* one iteration of the flip loop
FlipStep ==
    /\ pc = "flip"
    /\ LET src_index == FlipSrcIndex(j, row_size)
           dst_index == FlipDstIndex(j, height, row_size)
       IN  flipped_hdr_image' =
               SliceAssign(flipped_hdr_image, dst_index,
                           dst_index + row_size,
                           Slice(hdr_image, src_index, src_index + row_size))
    /\ IF j + 1 < height
         THEN /\ j' = j + 1
              /\ pc' = pc
         ELSE /\ j' = j
              /\ pc' = "return"
    /\ UNCHANGED <<files, filepath, mpc, attempted, err, containerOpen,
                   width, height, channel_data, hdr_image, row_size, i, k,
                   writes, result, mainVars, history>>

\* return width, height, bytes(flipped_hdr_image).  load never calls
\* exr_file.close(): the container is closed only if the runtime finalizes
\* the local when the frame is discarded (reference counting does, a tracing
\* collector need not).
Return ==
    /\ pc = "return"
    /\ result' = [width |-> width, height |-> height,
                  pixels |-> flipped_hdr_image]
    /\ containerOpen' \in BOOLEAN
    /\ pc' = "done"
    /\ UNCHANGED <<files, filepath, mpc, attempted, err, loadLocals,
                   mainVars, history>>

Load ==
    \/ CheckExists
    \/ CheckAccess
    \/ OpenContainer
    \/ ReadHeader
    \/ ReadChannel
    \/ AllocInterleaved
    \/ InterleaveStep
    \/ AllocFlipped
    \/ FlipStep
    \/ Return

\* a call: a new frame, no local bound
Enter(path) ==
    /\ filepath' = path
    /\ pc' = "exists"
    /\ attempted' = <<>>
    /\ err' = NoError
    /\ result' = NoResult
    /\ width' = 0 /\ height' = 0 /\ row_size' = 0
    /\ i' = 0 /\ j' = 0 /\ k' = 0
    /\ channel_data' = NoChannelData
    /\ hdr_image' = <<>>
    /\ flipped_hdr_image' = <<>>
    /\ writes' = <<>>
    /\ containerOpen' = FALSE
    /\ calls' = calls + 1

-----------------------------------------------------------------------------
(* main *)

\* width, height, hdr_map = load_hdr_environment_map(filepath): the call
MainCallLoad ==
    /\ mpc = "start"
    /\ mpc' = "load"
    /\ Enter(filepath)
    /\ UNCHANGED <<files, mainVars, outcomes>>

\* the call returned: the assignment, then
\* print("HDR Map Loaded. Dimensions:", width, "x", height)
MainLoadReturned ==
    /\ mpc = "load"
    /\ pc = "done"
    /\ mvars' = result
    /\ printed' = Append(printed, [text |-> "HDR Map Loaded",
                                   width |-> result.width,
                                   height |-> result.height])
    /\ mpc' = "glutInit"
    /\ UNCHANGED <<files, filepath, pc, attempted, err, containerOpen,
                   loadLocals, result, presenter, displayed, caught,
                   history>>

\* the exception classes that derive from Exception
IsException(kind) ==
    kind \in {"FileNotFoundError", "PermissionError", "OSError",
              "ValueError", "LibraryError", "GlutError"}

\* the call raised: except Exception as e receives what derives from
\* Exception; anything else leaves main
MainLoadRaised ==
    /\ mpc = "load"
    /\ pc = "raised"
    /\ caught' = IF IsException(err.kind) THEN err.kind ELSE caught
    /\ mpc' = IF IsException(err.kind) THEN "except" ELSE "propagated"
    /\ UNCHANGED <<files, filepath, pc, attempted, err, containerOpen,
                   loadLocals, result, mvars, printed, presenter, displayed,
                   history>>

\* a GLUT call that returns
GlutCall(name, next) ==
    /\ mpc = name
    /\ presenter' = Append(presenter, name)
    /\ mpc' = next
    /\ UNCHANGED <<files, filepath, pc, attempted, err, containerOpen,
                   loadLocals, result, mvars, printed, displayed, caught,
                   history>>

GlutInit == GlutCall("glutInit", "glutInitDisplayMode")

GlutInitDisplayMode == GlutCall("glutInitDisplayMode", "glutInitWindowSize")

GlutInitWindowSize == GlutCall("glutInitWindowSize", "glutCreateWindow")

GlutCreateWindow == GlutCall("glutCreateWindow", "glutDisplayFunc")

\* glut.glutDisplayFunc(lambda: display_hdr_image(width, height, hdr_map))
GlutDisplayFunc == GlutCall("glutDisplayFunc", "glutMainLoop")

\* glut.glutMainLoop(): does not return
GlutMainLoop == GlutCall("glutMainLoop", "looping")

\* a GLUT call that raises (no display, no GL context): caught by main
GlutRaises ==
    /\ mpc \in {"glutInit", "glutInitDisplayMode", "glutInitWindowSize",
                "glutCreateWindow", "glutDisplayFunc", "glutMainLoop"}
    /\ caught' = "GlutError"
    /\ mpc' = IF IsException("GlutError") THEN "except" ELSE "propagated"
    /\ UNCHANGED <<files, filepath, pc, attempted, err, containerOpen,
                   loadLocals, result, mvars, printed, presenter, displayed,
                   history>>

\* fault: the lambda passes width and height the wrong way round
DisplayArgsSwapped ==
    [width |-> mvars.height, height |-> mvars.width, pixels |-> mvars.pixels]

\* what the lambda passes: main's width, height, hdr_map
DisplayArgs == mvars

\* the main loop calls the display callback
Display ==
    /\ mpc = "looping"
    /\ Len(displayed) < MaxFrames
    /\ displayed' = Append(displayed, DisplayArgs)
    /\ UNCHANGED <<files, filepath, mpc, pc, attempted, err, containerOpen,
                   loadLocals, result, mvars, printed, presenter, caught,
                   history>>

\* except Exception as e: print(e); main returns
MainExcept ==
    /\ mpc = "except"
    /\ printed' = Append(printed, [text |-> caught, width |-> 0,
                                   height |-> 0])
    /\ mpc' = "returned"
    /\ UNCHANGED <<files, filepath, pc, attempted, err, containerOpen,
                   loadLocals, result, mvars, presenter, displayed, caught,
                   history>>

Main ==
    \/ MainCallLoad
    \/ MainLoadReturned
    \/ MainLoadRaised
    \/ GlutInit
    \/ GlutInitDisplayMode
    \/ GlutInitWindowSize
    \/ GlutCreateWindow
    \/ GlutDisplayFunc
    \/ GlutMainLoop
    \/ GlutRaises
    \/ Display
    \/ MainExcept

-----------------------------------------------------------------------------
(* The program: main(filepath) on any file *)

InitFrame ==
    /\ attempted = <<>>
    /\ err = NoError
    /\ containerOpen = FALSE
    /\ width = 0 /\ height = 0 /\ row_size = 0
    /\ i = 0 /\ j = 0 /\ k = 0
    /\ channel_data = NoChannelData
    /\ hdr_image = <<>>
    /\ flipped_hdr_image = <<>>
    /\ writes = <<>>
    /\ result = NoResult
    /\ mvars = NoResult
    /\ printed = <<>>
    /\ presenter = <<>>
    /\ displayed = <<>>
    /\ caught = ""
    /\ outcomes = <<>>

Init ==
    /\ files \in {<<f>> : f \in Files}
    /\ filepath = 1
    /\ mpc = "start"
    /\ pc = "idle"
    /\ calls = 0
    /\ InitFrame

Next == Load \/ Main

Spec == Init /\ [][Next]_vars

-----------------------------------------------------------------------------
(* Reference layouts, computed from the file alone *)

Opened == File.exists /\ File.readable /\ File.openable

Terminated == pc \in {"done", "raised"}

\* byte b of the float of channel index c at pixel (x, y) as stored
StoredByte(f, x, y, c, b) ==
    PlaneBytes(f, channels[c + 1])
        [(y * WindowWidth(f.dw) + x) * FloatSize + b + 1]

\* stored row y, channel-interleaved: R G B of pixel 0, R G B of pixel 1, ..
StoredRow(f, y) ==
    [n \in 1..(WindowWidth(f.dw) * NumChannels * FloatSize) |->
        LET q == n - 1
            x == q \div (NumChannels * FloatSize)
            c == (q % (NumChannels * FloatSize)) \div FloatSize
            b == q % FloatSize
        IN  StoredByte(f, x, y, c, b)]

\* row y of a buffer of rows of w pixels
BufferRow(buf, y, w) ==
    Slice(buf, y * w * NumChannels * FloatSize,
          (y + 1) * w * NumChannels * FloatSize)

\* the rows of a buffer of h rows in the opposite order
SwapRows(buf, w, h) ==
    [n \in 1..Len(buf) |->
        LET rs == w * NumChannels * FloatSize
            y == (n - 1) \div rs
        IN  buf[(h - 1 - y) * rs + ((n - 1) % rs) + 1]]

\* the plane of channel index c of an interleaved buffer of w * h pixels
SplitPlane(buf, c, w, h) ==
    [m \in 1..(w * h * FloatSize) |->
        buf[(((m - 1) \div FloatSize) * NumChannels + c) * FloatSize
            + ((m - 1) % FloatSize) + 1]]

-----------------------------------------------------------------------------
(* Claims *)

\* C1: the checks run in the order exists, readable, openable; the error
\* raised is the one of the first failing check (FileNotFoundError,
\* PermissionError, OSError wrapping the cause), and no later check is
\* attempted once a check has failed.
C1_FirstFailingCheckDecides ==
    /\ ~File.exists =>
          /\ pc \in {"idle", "exists", "raised"}
          /\ pc = "raised" =>
                /\ err = [kind |-> "FileNotFoundError", wraps |-> ""]
                /\ attempted = <<"exists">>
    /\ File.exists /\ ~File.readable =>
          /\ pc \in {"idle", "exists", "access", "raised"}
          /\ pc = "raised" =>
                /\ err = [kind |-> "PermissionError", wraps |-> ""]
                /\ attempted = <<"exists", "access">>
    /\ File.exists /\ File.readable /\ ~File.openable =>
          /\ pc \in {"idle", "exists", "access", "open", "raised"}
          /\ ~containerOpen
          /\ pc = "raised" =>
                /\ err = [kind |-> "OSError", wraps |-> "InputFile"]
                /\ attempted = <<"exists", "access", "open">>
    /\ Opened /\ pc = "raised" =>
          err.kind \notin {"FileNotFoundError", "PermissionError", "OSError"}

\* an existing, unreadable file that would not open either: only the
\* permission error is raised
C1_Witness ==
    /\ pc = "raised"
    /\ File.exists /\ ~File.readable /\ ~File.openable
    /\ err.kind = "PermissionError"

\* C2: for width >= 1 and height >= 1 the returned buffer is the vertical
\* flip of the stored image: output row height-1-y equals, byte for byte,
\* the interleaved stored row y.
C2_VerticalFlip ==
    (pc = "done" /\ result.width >= 1 /\ result.height >= 1) =>
        /\ result.width = WindowWidth(File.dw)
        /\ result.height = WindowHeight(File.dw)
        /\ Len(result.pixels) = BufferSize(result.width, result.height)
        /\ \A y \in 0..(result.height - 1) :
              BufferRow(result.pixels, result.height - 1 - y, result.width)
                  = StoredRow(File, y)

\* a two-row image [A, B] with A # B came back as [B, A]
C2_Witness ==
    /\ pc = "done"
    /\ result.height = 2 /\ result.width = 2
    /\ StoredRow(File, 0) # StoredRow(File, 1)
    /\ BufferRow(result.pixels, 0, 2) = StoredRow(File, 1)
    /\ BufferRow(result.pixels, 1, 2) = StoredRow(File, 0)

\* C3: when the interleave loops are done (before the flip), the float of
\* channel c at plane position y*width+x is at float position
\* (y*width+x)*3+c of the combined buffer, and every position of the
\* buffer was written exactly once.
C3_Interleave ==
    (pc = "alloc_flipped" /\ width >= 1 /\ height >= 1) =>
        /\ Len(hdr_image) = width * height * NumChannels * FloatSize
        /\ \A x \in 0..(width - 1), y \in 0..(height - 1),
              c \in 0..(NumChannels - 1), b \in 0..(FloatSize - 1) :
              hdr_image[((y * width + x) * NumChannels + c) * FloatSize
                        + b + 1]
                  = StoredByte(File, x, y, c, b)
        /\ \A n \in 1..Len(writes) : writes[n] = 1

\* a 2x2 image has been interleaved and no byte is the zero fill
C3_Witness ==
    /\ pc = "alloc_flipped"
    /\ width = 2 /\ height = 2
    /\ \A n \in 1..Len(hdr_image) : hdr_image[n] # 0

\* C4: the buffers hold exactly width*height*3 floats: no slice assignment
\* of the interleave loop or of the flip loop changes the length of the
\* buffer it writes into, and the returned buffer has that length.
C4_BufferLength ==
    /\ pc \in {"interleave", "alloc_flipped", "flip", "return", "done"} =>
          Len(hdr_image) = width * height * NumChannels * FloatSize
    /\ pc \in {"flip", "return", "done"} =>
          Len(flipped_hdr_image) = width * height * NumChannels * FloatSize
    /\ pc = "done" =>
          Len(result.pixels)
              = result.width * result.height * NumChannels * FloatSize

\* a 3-row image was returned, after 3 flip assignments and 3*w*h
\* interleave assignments
C4_Witness ==
    /\ pc = "done"
    /\ result.height = 3 /\ result.width >= 1
    /\ Len(result.pixels) = result.width * 3 * NumChannels * FloatSize

\* C5 (as claimed): a container lacking one of R, G, B makes load fail with
\* an error of the kind MissingChannel, a kind of load's own that differs
\* from the other kinds, and never return a buffer.
C5_MissingChannelKind ==
    (Terminated /\ Opened /\ File.present # ChannelNames) =>
        /\ pc = "raised"
        /\ err.kind = "MissingChannel"

\* C6 (as claimed): a data window of non-positive width or height makes
\* load fail with DecodeOpenFailed (OSError); no triple with a
\* non-positive dimension is returned.
C6_NonPositiveWindowRejected ==
    (Terminated /\ Opened /\ File.present = ChannelNames
        /\ (WindowWidth(File.dw) <= 0 \/ WindowHeight(File.dw) <= 0)) =>
        /\ pc = "raised"
        /\ err.kind = "OSError"

\* C7 (as claimed): in no terminal state of load is the container open.
C7_ContainerClosedOnExit ==
    Terminated => ~containerOpen

\* C8: swapping the rows of the returned buffer back and splitting it by
\* channel index gives exactly the R, G and B planes read from the
\* container.
C8_RoundTrip ==
    (pc = "done" /\ result.width >= 1 /\ result.height >= 1) =>
        /\ Len(result.pixels) = BufferSize(result.width, result.height)
        /\ \A c \in 0..(NumChannels - 1) :
              /\ SplitPlane(SwapRows(result.pixels, result.width,
                                     result.height),
                            c, result.width, result.height)
                    = channel_data[channels[c + 1]]
              /\ channel_data[channels[c + 1]]
                    = PlaneBytes(File, channels[c + 1])

\* a 2x3 image was returned whose buffer differs from its row swap
C8_Witness ==
    /\ pc = "done"
    /\ result.width = 2 /\ result.height = 3
    /\ SwapRows(result.pixels, 2, 3) # result.pixels
    /\ Len(channel_data["B"]) = 2 * 3 * FloatSize

GlutSteps == <<"glutInit", "glutInitDisplayMode", "glutInitWindowSize",
               "glutCreateWindow", "glutDisplayFunc", "glutMainLoop">>

\* C10: main calls load once, before every presenter step; the GLUT calls
\* are made in order and only after load returned; every display callback
\* passes the triple that call returned; if load raises, no presenter step
\* occurs, the error is printed and main returns without raising.
C10_LoadOnceBeforePresenter ==
    /\ calls = (IF mpc = "start" THEN 0 ELSE 1)
    /\ mpc # "propagated"
    /\ Len(presenter) <= Len(GlutSteps)
    /\ presenter = SubSeq(GlutSteps, 1, Len(presenter))
    /\ (presenter # <<>> \/ displayed # <<>>) =>
          /\ calls = 1
          /\ pc = "done"
          /\ mvars = result
    /\ \A n \in 1..Len(displayed) :
          /\ displayed[n] = result
          /\ presenter = GlutSteps
    /\ pc = "raised" =>
          /\ presenter = <<>>
          /\ displayed = <<>>
          /\ mpc \in {"load", "except", "returned"}
          /\ mpc = "returned" =>
                printed = <<[text |-> err.kind, width |-> 0, height |-> 0]>>

\* the main loop has delivered two frames of a loaded 2x2 image
C10_Witness ==
    /\ mpc = "looping"
    /\ Len(displayed) = 2
    /\ displayed[2] = result
    /\ result.width = 2 /\ result.height = 2

\* load raised ValueError, main printed it and returned
C10_WitnessFailure ==
    /\ mpc = "returned"
    /\ pc = "raised"
    /\ err.kind = "ValueError"

-----------------------------------------------------------------------------
(* load used directly: several calls, on two files *)

\* how a finished call ended
Outcome ==
    [path |-> filepath,
     kind |-> IF pc = "done" THEN "return" ELSE err.kind,
     wraps |-> err.wraps,
     result |-> result]

\* the caller notes how the call ended and calls load again
Recall(path) ==
    /\ mpc = "lib"
    /\ Terminated
    /\ calls < MaxCalls
    /\ outcomes' = Append(outcomes, Outcome)
    /\ Enter(path)
    /\ UNCHANGED <<files, mpc, mainVars>>

\* first files: data windows anchored at (1, 1), all channels or no B
RepeatFiles ==
    {f \in Files :
        /\ f.dw.minx = 1 /\ f.dw.miny = 1
        /\ f.present \in {ChannelNames, ChannelNames \ {"B"}}}

\* second files: the files that do not open, a 1x1 image and the data
\* windows with a negative dimension
OtherFiles ==
    {g \in Files :
        /\ g.seed = 0 /\ g.present = ChannelNames
        /\ g.dw.minx = g.dw.miny
        /\ g.dw.minx \in {0, MaxCoord}
        /\ g.dw.maxx \in {0, MaxCoord} /\ g.dw.maxy \in {0, MaxCoord}
        /\ (g.dw.minx = 0 => g.dw = NoWindow)}

InitRepeat ==
    /\ files \in {<<f, g>> : f \in RepeatFiles, g \in OtherFiles}
    /\ filepath \in {1, 2}
    /\ mpc = "lib"
    /\ pc = "exists"
    /\ calls = 1
    /\ InitFrame

NextRepeat == Load \/ \E path \in {1, 2} : Recall(path)

SpecRepeat == InitRepeat /\ [][NextRepeat]_vars

====
